---- MODULE Spec2Model ----
(***************************************************************************)
(* Model of the inDrive geotracks backend:                                 *)
(*   backend/main.py                      job store, process_job, cancel   *)
(*   backend/processing/data_processor.py filters, sampling, path          *)
(*                                        reconstruction                   *)
(*   backend/processing/heatmap_generator.py  meter-grid aggregation       *)
(*                                                                         *)
(* The module holds several specifications over one set of variables:      *)
(*   Spec        the job lifecycle (create_job / process_job / cancel_job) *)
(*   SpecFair    the job lifecycle under a fair event loop                 *)
(*   SpecSample  DataProcessor.safe_sample applied to bounded inputs       *)
(*   SpecRecon   DataProcessor.reconstruct_paths, one loop step at a time  *)
(*   SpecGrid    HeatmapGenerator._grid_accumulate on bounded point sets   *)
(*   SpecFrame   the local frames used by the generate_*_map callers       *)
(*   SpecStats   DataProcessor.calculate_statistics, speed analysis        *)
(*   SpecFilter  DataProcessor.apply_filters on bounded frames             *)
(* Each specification leaves the variables of the others at their initial  *)
(* values.                                                                 *)
(***************************************************************************)
EXTENDS Integers, Sequences, FiniteSets, TLC

VARIABLES
    \* ---- main.py ----
    jobs_db,      \* the job store: job id -> job record
    pc,           \* position of the process_job task of each job
    permits,      \* value of job_semaphore
    last_resp,    \* the last HTTP response produced by an endpoint
    \* ---- safe_sample ----
    s_df,         \* the input frame: a sequence of rows
    s_hasid,      \* whether the frame has a randomized_id column
    s_max,        \* DataProcessor.max_rows
    s_out,        \* the returned frame
    s_pc,         \* "call" before the call, "ret" after it
    \* ---- reconstruct_paths ----
    r_df,         \* the input frame: a sequence of pings
    r_cols,       \* the columns of the input frame
    r_pc,         \* position inside reconstruct_paths
    r_todo,       \* vehicle ids whose group is still to be processed
    r_vid,        \* vehicle id of the group being processed
    r_g,          \* the group after the static filter (g_xy)
    r_i,          \* loop index of the successor-selection loop
    succ,         \* succ array of the current group
    pred,         \* pred array of the current group
    segments,     \* segments appended so far
    r_links,      \* per finished vehicle: the succ array left by the loop
    r_err,        \* the exception raised by reconstruct_paths, or NoErr
    \* ---- _grid_accumulate ----
    g_pts,        \* the rows of df_centered
    g_out,        \* rows returned for g_pts
    g_perm,       \* a permutation of g_pts
    g_out2,       \* rows returned for g_perm
    g_pc,
    \* ---- generate_*_map frames ----
    f_df,         \* pings handed to the renderer
    f_seg,        \* segments handed to the renderer
    f_calls,      \* the grid-helper calls made: caller frame and helper frame
    f_pc,
    \* ---- calculate_statistics ----
    st_df,        \* the pings handed in (speed_kmh column present)
    st_stats,     \* the stats dictionary returned
    st_low,       \* the frame handed to DBSCAN.fit, or NoCall
    st_pc,
    \* ---- apply_filters ----
    af_df,        \* the input frame
    af_cols,      \* the columns of the input frame
    af_filters,   \* the filters dictionary
    af_out,       \* the returned frame
    af_pc

jobVars   == <<jobs_db, pc, permits, last_resp>>
sampVars  == <<s_df, s_hasid, s_max, s_out, s_pc>>
reconVars == <<r_df, r_cols, r_pc, r_todo, r_vid, r_g, r_i, succ, pred,
               segments, r_links, r_err>>
gridVars  == <<g_pts, g_out, g_perm, g_out2, g_pc>>
frameVars == <<f_df, f_seg, f_calls, f_pc>>
statVars  == <<st_df, st_stats, st_low, st_pc>>
filtVars  == <<af_df, af_cols, af_filters, af_out, af_pc>>
vars      == <<jobVars, sampVars, reconVars, gridVars, frameVars, statVars,
               filtVars>>

\* What each sub-model leaves alone.
notJobVars   == <<sampVars, reconVars, gridVars, frameVars, statVars, filtVars>>
notSampVars  == <<jobVars, reconVars, gridVars, frameVars, statVars, filtVars>>
notReconVars == <<jobVars, sampVars, gridVars, frameVars, statVars, filtVars>>
notGridVars  == <<jobVars, sampVars, reconVars, frameVars, statVars, filtVars>>
notFrameVars == <<jobVars, sampVars, reconVars, gridVars, statVars, filtVars>>
notStatVars  == <<jobVars, sampVars, reconVars, gridVars, frameVars, filtVars>>
notFiltVars  == <<jobVars, sampVars, reconVars, gridVars, frameVars, statVars>>

(***************************************************************************)
(* Small helpers                                                           *)
(***************************************************************************)
Range(s) == {s[k] : k \in DOMAIN s}

Max2(a, b) == IF a >= b THEN a ELSE b
Min2(a, b) == IF a <= b THEN a ELSE b
Abs(a)     == IF a < 0 THEN -a ELSE a

\* np.nan in a numeric column, and a cell holding text that is no number
NaN    == -999
BadNum == -1000

RECURSIVE SumSeq(_)
SumSeq(s) == IF s = <<>> THEN 0 ELSE Head(s) + SumSeq(Tail(s))

\* The subsequence of s at the positions satisfying Keep, in order.
RECURSIVE SelectIdx(_, _)
SelectIdx(s, idx) ==
    IF s = <<>> THEN <<>>
    ELSE LET n == Len(s)
             rest == SelectIdx(SubSeq(s, 1, n - 1), idx)
         IN IF n \in idx THEN Append(rest, s[n]) ELSE rest

\* The elements of a finite set of integers in ascending order.
RECURSIVE SortedSeq(_)
SortedSeq(S) ==
    IF S = {} THEN <<>>
    ELSE LET m == CHOOSE x \in S : \A y \in S : x <= y
         IN <<m>> \o SortedSeq(S \ {m})

\* All orderings of a finite set, as sequences.
Perms(S) ==
    {p \in [1..Cardinality(S) -> S] : \A a, b \in DOMAIN p : a # b => p[a] # p[b]}

(***************************************************************************)
(* main.py : job store, process_job, cancel_job                            *)
(***************************************************************************)
\* Jobs ever submitted.
MaxJobs == 2

\* int(os.environ.get("MAX_CONCURRENT_JOBS", "2")): the permits of
\* job_semaphore.
MAX_CONCURRENT_JOBS == 2

JobIds == 1..MaxJobs

None == "None"

\* analysisType values: one that reconstructs paths, one that does not, and
\* one that no branch of process_job knows.
AnalysisTypes == {"popular-routes", "speed", "unknown"}

NeedsSegments(t) == t \in {"popular-routes", "endpoints", "trajectories", "ghg"}
KnownType(t) ==
    t \in {"popular-routes", "endpoints", "speed", "trajectories", "ghg"}

\* create_job: the record stored in jobs_db.
NewJob(t) ==
    [status |-> "pending", analysisType |-> t, startedAt |-> None,
     completedAt |-> None, error |-> None, progress |-> 0, results |-> None]

\* process_job.cancelled()
cancelled(j) == j \in DOMAIN jobs_db /\ jobs_db[j].status = "cancelled"

InitJobs ==
    /\ jobs_db = <<>>
    /\ pc = [j \in JobIds |-> "none"]
    /\ permits = MAX_CONCURRENT_JOBS
    /\ last_resp = [op |-> "none", code |-> 0]

\* The handlers and tasks share one event loop, and the body of process_job
\* has no await after it has entered `async with job_semaphore`: while a run
\* is between its start and its end no handler and no other task gets a turn.
LoopFree == \A k \in JobIds : pc[k] \in {"none", "queued", "done"}

\* POST /api/jobs: store a pending job and create its process_job task.
\* Job ids are fresh (uuid4); the model hands them out in ascending order.
create_job(j, t) ==
    /\ LoopFree
    /\ j \notin DOMAIN jobs_db
    /\ \A k \in JobIds : k < j => k \in DOMAIN jobs_db
    /\ jobs_db' = jobs_db @@ (j :> NewJob(t))
    /\ pc' = [pc EXCEPT ![j] = "queued"]
    /\ last_resp' = [op |-> "create", code |-> 200]
    /\ UNCHANGED permits
    /\ UNCHANGED notJobVars

\* A faulty variant: the failure is recorded without its message.
FailedNoMessage(job, msg) ==
    [job EXCEPT !.status = "failed", !.completedAt = "at_fail"]

\* The except block of process_job, followed by the release of the permit.
FailedJob(job, msg) ==
    [job EXCEPT !.status = "failed", !.error = msg, !.completedAt = "at_fail"]

\* A faulty variant: the run completes without storing its results.
CompletedNoResults(job) ==
    [job EXCEPT !.status = "completed", !.completedAt = "at_complete",
                !.progress = 100]

\* The final block of process_job: status, completedAt, progress, results.
CompletedJob(job) ==
    [job EXCEPT !.status = "completed", !.completedAt = "at_complete",
                !.progress = 100, !.results = "map+statistics"]

\* A faulty variant: the run starts without taking a permit.
pj_startNoAcquire(j) ==
    /\ LoopFree
    /\ pc[j] = "queued"
    /\ jobs_db' = [jobs_db EXCEPT ![j].status = "running",
                                  ![j].startedAt = "at_start",
                                  ![j].progress = 10]
    /\ pc' = [pc EXCEPT ![j] = "read"]
    /\ UNCHANGED <<last_resp, permits>>
    /\ UNCHANGED notJobVars

\* async with job_semaphore, then job.update(status="running", ...).
pj_start(j) ==
    /\ LoopFree
    /\ pc[j] = "queued"
    /\ permits > 0
    /\ permits' = permits - 1
    /\ jobs_db' = [jobs_db EXCEPT ![j].status = "running",
                                  ![j].startedAt = "at_start",
                                  ![j].progress = 10]
    /\ pc' = [pc EXCEPT ![j] = "read"]
    /\ UNCHANGED last_resp
    /\ UNCHANGED notJobVars

\* A phase of the run ending at a cancellation check: the phase either raises
\* (except block), or finishes, sets progress and then returns if cancelled.
Phase(j, here, next, progress, raises) ==
    /\ pc[j] = here
    /\ IF raises
       THEN /\ jobs_db' = [jobs_db EXCEPT ![j] = FailedJob(@, "exception")]
            /\ pc' = [pc EXCEPT ![j] = "done"]
            /\ permits' = permits + 1
       ELSE LET job == [jobs_db[j] EXCEPT !.progress = progress]
            IN /\ jobs_db' = [jobs_db EXCEPT ![j] = job]
               /\ IF job.status = "cancelled"
                  THEN /\ pc' = [pc EXCEPT ![j] = "done"]
                       /\ permits' = permits + 1
                  ELSE /\ pc' = [pc EXCEPT ![j] = next]
                       /\ UNCHANGED permits
    /\ UNCHANGED last_resp
    /\ UNCHANGED notJobVars

\* pd.read_csv and the column selection, then `if cancelled(): return`.
pj_read(j) ==
    \E raises \in BOOLEAN :
        Phase(j, "read", "sample", jobs_db[j].progress, raises)

\* apply_filters, safe_sample, progress = 30, then `if cancelled(): return`.
pj_sample(j) ==
    \E raises \in BOOLEAN :
        Phase(j, "sample", "reconstruct", 30, raises)

\* For the analysis types that need segments: ensure_speed_kmh and
\* reconstruct_paths, progress = 55, then `if cancelled(): return`.
pj_reconstruct(j) ==
    /\ j \in DOMAIN jobs_db
    /\ NeedsSegments(jobs_db[j].analysisType)
    /\ \E raises \in BOOLEAN : Phase(j, "reconstruct", "render", 55, raises)

\* A faulty variant: the run ends without giving its permit back.
pj_finishNoRelease(j) ==
    /\ j \in DOMAIN jobs_db
    /\ \/ pc[j] = "render"
       \/ pc[j] = "reconstruct" /\ ~NeedsSegments(jobs_db[j].analysisType)
    /\ jobs_db' = [jobs_db EXCEPT ![j] = CompletedJob([@ EXCEPT !.progress = 80])]
    /\ pc' = [pc EXCEPT ![j] = "done"]
    /\ UNCHANGED <<last_resp, permits>>
    /\ UNCHANGED notJobVars

\* Map generation (for the other analysis types straight after the sampling
\* check), progress = 80, saving the map, statistics and the final update of
\* the job. An unknown analysis type raises. No cancellation check is made.
pj_finish(j) ==
    /\ j \in DOMAIN jobs_db
    /\ \/ pc[j] = "render"
       \/ pc[j] = "reconstruct" /\ ~NeedsSegments(jobs_db[j].analysisType)
    /\ \E raises \in BOOLEAN :
        LET known == KnownType(jobs_db[j].analysisType)
        IN jobs_db' = [jobs_db EXCEPT ![j] =
                          IF ~known THEN FailedJob(@, "Unknown analysis type")
                          ELSE IF raises THEN FailedJob(@, "exception")
                          ELSE CompletedJob([@ EXCEPT !.progress = 80])]
    /\ pc' = [pc EXCEPT ![j] = "done"]
    /\ permits' = permits + 1
    /\ UNCHANGED last_resp
    /\ UNCHANGED notJobVars

\* A faulty variant: any stored job is cancelled, whatever its status.
cancel_jobAnyStatus(j) ==
    /\ LoopFree
    /\ IF j \notin DOMAIN jobs_db
       THEN /\ last_resp' = [op |-> "cancel", code |-> 404]
            /\ UNCHANGED jobs_db
       ELSE /\ jobs_db' = [jobs_db EXCEPT ![j].status = "cancelled",
                                          ![j].completedAt = "at_cancel"]
            /\ last_resp' = [op |-> "cancel", code |-> 200]
    /\ UNCHANGED <<pc, permits>>
    /\ UNCHANGED notJobVars

\* DELETE /api/jobs/{job_id}
cancel_job(j) ==
    /\ LoopFree
    /\ IF j \notin DOMAIN jobs_db
       THEN /\ last_resp' = [op |-> "cancel", code |-> 404]
            /\ UNCHANGED jobs_db
       ELSE IF jobs_db[j].status \in {"completed", "failed"}
       THEN /\ last_resp' = [op |-> "cancel", code |-> 400]
            /\ UNCHANGED jobs_db
       ELSE /\ jobs_db' = [jobs_db EXCEPT ![j].status = "cancelled",
                                          ![j].completedAt = "at_cancel"]
            /\ last_resp' = [op |-> "cancel", code |-> 200]
    /\ UNCHANGED <<pc, permits>>
    /\ UNCHANGED notJobVars

NextJobs ==
    \/ \E j \in JobIds, t \in AnalysisTypes : create_job(j, t)
    \/ \E j \in JobIds : pj_start(j)
    \/ \E j \in JobIds : pj_read(j)
    \/ \E j \in JobIds : pj_sample(j)
    \/ \E j \in JobIds : pj_reconstruct(j)
    \/ \E j \in JobIds : pj_finish(j)
    \/ \E j \in JobIds : cancel_job(j)

(***************************************************************************)
(* data_processor.py : DataProcessor.safe_sample                           *)
(*                                                                         *)
(* A frame is the sequence of its rows; a row of the sampling model is the *)
(* value of its randomized_id column (NaN for a missing id). Rows are      *)
(* named by their position in the input. A returned frame is the number of *)
(* times each input row occurs in it, and whether it is the input frame    *)
(* itself (same rows, same order). The row order of a sampled frame is     *)
(* decided by the seeded generator and is not modelled; which rows         *)
(* g.sample draws is a nondeterministic choice among the subsets of the    *)
(* requested size.                                                         *)
(***************************************************************************)
MaxRowsIn == 5
MaxCap    == 4
MaxVid    == 3

VidValues == {NaN} \cup 1..MaxVid

\* df["randomized_id"].dropna().unique()
UniqueVids(df) == Range(df) \ {NaN}

\* The rows of one group of df.groupby("randomized_id").
GroupRows(df, v) == {k \in DOMAIN df : df[k] = v}

\* A faulty variant: a frame of exactly max_rows rows is sampled too.
WithinCapStrict(n, max_rows) == n < max_rows

\* `if n <= self.max_rows: return df`
WithinCap(n, max_rows) == n <= max_rows

\* per = max(1, self.max_rows // max(1, len(vids)))
SamplePer(max_rows, nvids) == Max2(1, max_rows \div Max2(1, nvids))

\* A faulty variant: one row per group whatever the quota.
takeOne(g, per) == {S \in SUBSET g : Cardinality(S) = Min2(Cardinality(g), 1)}

\* take(g): g.sample(n=min(len(g), per)) draws without replacement; every
\* subset of that size is a possible draw.
take(g, per) == {S \in SUBSET g : Cardinality(S) = Min2(Cardinality(g), per)}

\* df.groupby("randomized_id", group_keys=False).apply(take): one draw per
\* group, concatenated; rows with a NaN key belong to no group.
RECURSIVE GroupDraws(_, _, _)
GroupDraws(df, vids, per) ==
    IF vids = {} THEN {{}}
    ELSE LET v == CHOOSE x \in vids : TRUE
         IN {S \cup R : S \in take(GroupRows(df, v), per),
                        R \in GroupDraws(df, vids \ {v}, per)}

\* The frame holding exactly the rows of S, once each.
FrameOf(df, S, same) ==
    [cnt |-> [k \in DOMAIN df |-> IF k \in S THEN 1 ELSE 0], same |-> same]

\* All frames safe_sample(df) can return.
safe_sample(df, hasid, max_rows) ==
    LET n == Len(df) IN
    IF WithinCap(n, max_rows) THEN {FrameOf(df, DOMAIN df, TRUE)}
    ELSE IF ~hasid
    THEN {FrameOf(df, S, FALSE) : S \in take(DOMAIN df, max_rows)}
    ELSE LET vids == UniqueVids(df)
             per  == SamplePer(max_rows, Cardinality(vids))
         IN {FrameOf(df, S, FALSE) : S \in GroupDraws(df, vids, per)}

NoFrame == [cnt |-> <<>>, same |-> FALSE]

RowsOut(out) == SumSeq(out.cnt)

InitSample ==
    /\ s_hasid \in BOOLEAN
    /\ s_df \in UNION {[1..n -> IF s_hasid THEN VidValues ELSE {NaN}] :
                          n \in 0..MaxRowsIn}
    /\ s_max \in 1..MaxCap
    /\ s_out = NoFrame
    /\ s_pc = "call"

SafeSampleCall ==
    /\ s_pc = "call"
    /\ s_out' \in safe_sample(s_df, s_hasid, s_max)
    /\ s_pc' = "ret"
    /\ UNCHANGED <<s_df, s_hasid, s_max>>
    /\ UNCHANGED notSampVars

NextSample == SafeSampleCall

(***************************************************************************)
(* data_processor.py : geometry helpers in fixed point                     *)
(*                                                                         *)
(* Pings lie on a lattice of UnitM metres (the patch is small enough for   *)
(* one scale factor on both axes). Lengths are integers in centimetres,    *)
(* angles integers in tenths of a degree.                                  *)
(***************************************************************************)
UnitM == 40

\* PathReconstructionConfig defaults
K_NEIGHBORS     == 6
MAX_LINK_CM     == 16000
HEADING_TOL_D10 == 350
EXPECTED_STEP_S == 10
MIN_SPEED_KMH   == 1

\* DataProcessor.ef_kg_per_km, in thousandths
EF_MILLI == 192

\* floor(sqrt(n)) by bisection, for 0 <= n < 2^31
RECURSIVE IsqrtIn(_, _, _)
IsqrtIn(n, lo, hi) ==
    IF lo >= hi THEN lo
    ELSE LET mid == (lo + hi + 1) \div 2
         IN IF mid * mid <= n THEN IsqrtIn(n, mid, hi) ELSE IsqrtIn(n, lo, mid - 1)

Isqrt(n) == IsqrtIn(n, 0, 46340)

RECURSIVE Gcd(_, _)
Gcd(a, b) == IF b = 0 THEN a ELSE Gcd(b, a % b)

\* atan(a/b) in tenths of a degree for 0 <= a <= b, b > 0, over the slopes
\* that lattice offsets of the model produce.
AtanD10(a, b) ==
    LET g == Gcd(b, a)
        p == a \div g
        q == b \div g
    IN CASE p = 0 -> 0
         [] p = 1 /\ q = 4 -> 140
         [] p = 1 /\ q = 3 -> 184
         [] p = 1 /\ q = 2 -> 266
         [] p = 2 /\ q = 3 -> 337
         [] p = 3 /\ q = 4 -> 369
         [] p = 1 /\ q = 1 -> 450

\* _bearing_deg(dx, dy) = degrees(arctan2(dx, dy)) % 360: 0 = north (+y),
\* 90 = east (+x). arctan2(0, 0) = 0.
_bearing_deg(dx, dy) ==
    LET ax == Abs(dx)
        ay == Abs(dy)
        \* angle from the +y axis towards +x in the first quadrant
        q1 == IF ax = 0 /\ ay = 0 THEN 0
              ELSE IF ax <= ay THEN AtanD10(ax, ay)
              ELSE 900 - AtanD10(ay, ax)
    IN IF dx >= 0 /\ dy >= 0 THEN q1 % 3600
       ELSE IF dx >= 0 /\ dy < 0 THEN 1800 - q1
       ELSE IF dx < 0 /\ dy < 0 THEN 1800 + q1
       ELSE (3600 - q1) % 3600

\* _ang_diff(a, b) = |((a - b + 180) % 360) - 180|
_ang_diff(a, b) == Abs(((a - b + 1800) % 3600) - 1800)

\* Euclidean length in centimetres of a lattice offset.
DistCm(dx, dy) == (UnitM * Isqrt((dx * dx + dy * dy) * 1000000)) \div 10

(***************************************************************************)
(* data_processor.py : DataProcessor.reconstruct_paths                     *)
(*                                                                         *)
(* A ping is [vid, x, y, azm, spd]: x = lng and y = lat in lattice units,  *)
(* azm in degrees, NaN, or BadNum for a value float() rejects, spd =       *)
(* speed_kmh in km/h or NaN. Array indices run from 1; 0 stands for the    *)
(* code's -1.                                                              *)
(***************************************************************************)
MaxPings == 3

UnitCm == UnitM * 100

RequiredCols == {"lat", "lng", "randomized_id", "azm"}
AllCols == RequiredCols \cup {"speed_kmh"}

NoErr == [type |-> "none", msg |-> "", names |-> {}]

\* raise ValueError("reconstruct_paths requires columns: randomized_id, lat, lng, azm")
MissingColumnsError ==
    [type |-> "ValueError", msg |-> "reconstruct_paths requires columns",
     names |-> {"randomized_id", "lat", "lng", "azm"}]

\* g_xy["azm"].astype(float) on a value that is no number
AzimuthValueError ==
    [type |-> "ValueError", msg |-> "could not convert string to float",
     names |-> {}]

\* The check without the azimuth column.
HasCoordCols(cols) == {"lat", "lng", "randomized_id"} \subseteq cols

\* `if not {...}.issubset(df.columns): raise`
HasRequiredCols(cols) == RequiredCols \subseteq cols

\* df.groupby("randomized_id", sort=False): keys in order of first appearance
RECURSIVE GroupOrder(_)
GroupOrder(df) ==
    IF df = <<>> THEN <<>>
    ELSE LET n == Len(df)
             before == GroupOrder(SubSeq(df, 1, n - 1))
         IN IF df[n].vid \in Range(before) THEN before
            ELSE Append(before, df[n].vid)

\* A faulty variant: the group holds the rows of every vehicle.
GroupAll(df, v) == df

\* g = g.reset_index(drop=True): the rows of one vehicle, in frame order
GroupOf(df, v) == SelectIdx(df, {k \in DOMAIN df : df[k].vid = v})

\* g[g["speed_kmh"].fillna(0) >= cfg.min_speed_kmh]
UsableSpeed(spd) == (IF spd = NaN THEN 0 ELSE spd) >= MIN_SPEED_KMH

\* A faulty variant: near-static pings are kept.
StaticFilterOff(g, cols) == g

StaticFilter(g, cols) ==
    IF "speed_kmh" \in cols
    THEN SelectIdx(g, {k \in DOMAIN g : UsableSpeed(g[k].spd)})
    ELSE g

\* _to_xy: planar coordinates around the mean lat/lng of the group. The mean
\* is sum/n, so a coordinate is kept as its numerator over n, in centimetres:
\* x_m = ((n*lng - sum(lng)) * UnitCm) / n.
_to_xy(g) ==
    LET n  == Len(g)
        sx == SumSeq([k \in 1..n |-> g[k].x])
        sy == SumSeq([k \in 1..n |-> g[k].y])
    IN [n |-> n, lat0 |-> <<sy, n>>, lng0 |-> <<sx, n>>,
        X |-> [k \in 1..n |-> <<(n * g[k].x - sx) * UnitCm,
                                (n * g[k].y - sy) * UnitCm>>]]

\* Offset from point i to point c of a projected group, in lattice units.
OffX(xy, i, c) == (xy.X[c][1] - xy.X[i][1]) \div (xy.n * UnitCm)
OffY(xy, i, c) == (xy.X[c][2] - xy.X[i][2]) \div (xy.n * UnitCm)

\* nn_dist: planar Euclidean distance, centimetres
NNDist(xy, i, c) == DistCm(OffX(xy, i, c), OffY(xy, i, c))

\* nn_idx[i, 1:]: the neighbours of i after the first column is dropped.
\* kneighbors sorts by distance; the first column is a point at distance 0
\* (i itself, or a duplicate of it: the order of ties is unspecified), and
\* ties at the k-th place are cut arbitrarily.
CandidateSets(xy, i) ==
    LET n     == xy.n
        kk    == Min2(K_NEIGHBORS + 1, n) - 1
        zero  == {c \in 1..n : NNDist(xy, i, c) = 0}
    IN UNION {
         LET others == (1..n) \ {z0}
         IN {C \in SUBSET others :
                /\ Cardinality(C) = kk
                /\ \A a \in C, b \in others \ C :
                       NNDist(xy, i, a) <= NNDist(xy, i, b)}
         : z0 \in zero}

\* ang = _ang_diff(azm[i], bearing): a NaN azimuth gives NaN, which fails
\* every comparison; NoAngle stands for it.
NoAngle == 9999

AngTo(g, xy, i, c) ==
    IF g[i].azm = NaN THEN NoAngle
    ELSE _ang_diff(g[i].azm * 10, _bearing_deg(OffX(xy, i, c), OffY(xy, i, c)))

\* A faulty variant: every candidate qualifies.
QualifyingAny(g, xy, i, C) == C

\* ok = (cand_dist <= max_d) & (ang <= cfg.heading_tol_deg)
Qualifying(g, xy, i, C) ==
    {c \in C : /\ NNDist(xy, i, c) <= MAX_LINK_CM
               /\ AngTo(g, xy, i, c) <= HEADING_TOL_D10}

\* spd: speed_kmh of the group, or zeros when the column is absent
SpdOf(g, cols, i) == IF "speed_kmh" \in cols THEN g[i].spd ELSE 0

\* expected = clip((spd/3.6) * expected_step_s, 0.25*max_d, 0.8*max_d), cm
ExpectedCm(spd) ==
    LET raw == (spd * EXPECTED_STEP_S * 1000) \div 36
    IN Max2(MAX_LINK_CM \div 4, Min2(raw, (MAX_LINK_CM * 8) \div 10))

\* score = 0.7*(1 - ang/tol) + 0.3*(1 - |d - expected|/max_d), multiplied by
\* 10 * tol * max_d to stay in integers.
Score(ang, d, expected) ==
    7 * MAX_LINK_CM * (HEADING_TOL_D10 - ang)
    + 3 * HEADING_TOL_D10 * (MAX_LINK_CM - Abs(d - expected))

\* j = cand_idx[np.argmax(score)]: the first maximum in neighbour order, that
\* is a nearest one among the best-scoring candidates.
ArgmaxChoices(g, xy, cols, i, ok) ==
    LET e     == ExpectedCm(SpdOf(g, cols, i))
        sc(c) == Score(AngTo(g, xy, i, c), NNDist(xy, i, c), e)
        best  == {c \in ok : \A o \in ok : sc(o) <= sc(c)}
    IN {c \in best : \A o \in best : NNDist(xy, i, c) <= NNDist(xy, i, o)}

MinAng(g, xy, i, ok) ==
    CHOOSE a \in {AngTo(g, xy, i, c) : c \in ok} :
        \A c \in ok : a <= AngTo(g, xy, i, c)

\* Lines 163-182: give i the successor j unless j keeps its predecessor.
\* A faulty variant: the successor is recorded, the predecessor is not.
LinkForgetsPred(g, xy, sp, i, j, minang) ==
    [succ |-> [sp.succ EXCEPT ![i] = j], pred |-> sp.pred]

\* A faulty variant: the new edge is always recorded, the old one never detached.
LinkNoDetach(g, xy, sp, i, j, minang) ==
    [succ |-> [sp.succ EXCEPT ![i] = j], pred |-> [sp.pred EXCEPT ![j] = i]]

Link(g, xy, sp, i, j, minang) ==
    LET j_prev == {a \in 1..xy.n : sp.succ[a] = j}
        old_i  == CHOOSE a \in j_prev : \A b \in j_prev : a <= b
        old_ok == /\ j_prev # {}
                  /\ AngTo(g, xy, old_i, j) <= HEADING_TOL_D10
                  /\ AngTo(g, xy, old_i, j) <= minang
        s1     == IF j_prev # {} THEN [sp.succ EXCEPT ![old_i] = 0] ELSE sp.succ
    IN IF sp.pred[j] # 0
       THEN IF old_ok THEN sp
            ELSE [succ |-> [s1 EXCEPT ![i] = j],
                  pred |-> [sp.pred EXCEPT ![j] = i]]
       ELSE [succ |-> [sp.succ EXCEPT ![i] = j],
             pred |-> [sp.pred EXCEPT ![j] = i]]

\* One iteration of `for i in range(len(g_xy))`: every value the pair
\* (succ, pred) can have after it.
SelectOutcomes(g, xy, cols, sp, i) ==
    UNION {
      LET ok == Qualifying(g, xy, i, C)
      IN IF ok = {} THEN {sp}
         ELSE {Link(g, xy, sp, i, j, MinAng(g, xy, i, ok)) :
                  j \in ArgmaxChoices(g, xy, cols, i, ok)}
      : C \in CandidateSets(xy, i)}

\* Lines 191-196: follow succ from cur while the next node is unvisited.
\* A faulty variant: the walk stops after its first step.
WalkOneStep(sc, visited, cur, path) ==
    IF sc[cur] # 0 /\ sc[cur] \notin visited
    THEN [path |-> Append(path, sc[cur]), visited |-> visited \cup {sc[cur]}]
    ELSE [path |-> path, visited |-> visited]

RECURSIVE Walk(_, _, _, _)
Walk(sc, visited, cur, path) ==
    IF sc[cur] # 0 /\ sc[cur] \notin visited
    THEN Walk(sc, visited \cup {sc[cur]}, sc[cur], Append(path, sc[cur]))
    ELSE [path |-> path, visited |-> visited]

\* Lines 185-198: the paths of length >= 2 started at the heads, in order.
RECURSIVE Chains(_, _, _, _, _)
Chains(n, sc, pr, i, visited) ==
    IF i > n THEN <<>>
    ELSE IF i \in visited \/ pr[i] # 0 THEN Chains(n, sc, pr, i + 1, visited)
    ELSE LET w == Walk(sc, visited \cup {i}, i, <<i>>)
             rest == Chains(n, sc, pr, i + 1, w.visited)
         IN IF Len(w.path) >= 2 THEN <<w.path>> \o rest ELSE rest

\* A faulty variant: the emission factor is left out.
EmissionNoFactor(d) == d

\* kg = d_km * self.ef_kg_per_km, for a length in centimetres, in 10^-8 kg
Emission(d) == d * EF_MILLI

\* Lines 199-212: one segment row. d_m = hypot(x2-x1, y2-y1) in the group's
\* frame; dist is kept in centimetres (dist_km * 10^5) and co2 = dist_km * ef
\* in units of 10^-8 kg.
SegmentRow(v, g, xy, a, b) ==
    LET d == NNDist(xy, a, b)
    IN [vid |-> v, src |-> a, dst |-> b,
        lat1 |-> g[a].y, lng1 |-> g[a].x, lat2 |-> g[b].y, lng2 |-> g[b].x,
        x1 |-> xy.X[a][1], y1 |-> xy.X[a][2],
        x2 |-> xy.X[b][1], y2 |-> xy.X[b][2], den |-> xy.n,
        dist |-> d, co2 |-> Emission(d)]

PathSegments(v, g, xy, path) ==
    [k \in 1..(Len(path) - 1) |-> SegmentRow(v, g, xy, path[k], path[k + 1])]

RECURSIVE ChainSegments(_, _, _, _)
ChainSegments(v, g, xy, paths) ==
    IF paths = <<>> THEN <<>>
    ELSE PathSegments(v, g, xy, Head(paths))
         \o ChainSegments(v, g, xy, Tail(paths))

\* ---- inputs of the reconstruction model ----
Vehicles == {1, 2}

Ping(v, x, y, a, s) == [vid |-> v, x |-> x, y |-> y, azm |-> a, spd |-> s]

\* Pings of vehicle 1: moving pings on four lattice points 40 m apart,
\* heading north or south, a near-static ping and a ping of unknown speed.
PingKinds ==
    {Ping(1, 0, 0, 0, 36), Ping(1, 0, 1, 0, 36), Ping(1, 0, 2, 0, 36),
     Ping(1, 0, 1, 180, 36), Ping(1, 1, 0, 0, 36),
     Ping(1, 0, 1, 0, 0), Ping(1, 0, 1, 0, NaN)}

\* Rows of vehicle 2, which follow those of vehicle 1: none, two
\* linked pings, or two pings one of which has a malformed azimuth.
OtherBlocks ==
    {<<>>,
     <<Ping(2, 0, 0, 0, 36), Ping(2, 0, 1, 0, 36)>>,
     <<Ping(2, 0, 0, 0, 36), Ping(2, 0, 1, BadNum, 36)>>}

\* Scenario rows of vehicle 2: two pings 520 m apart, the second due north
\* of the first; and three pings on one meridian 120 m apart (0.001 degree
\* of latitude is about 110 m: one step is within max_link_m, two steps are
\* beyond it), all heading north, in every row order.
FarPair == <<Ping(2, 0, 0, 0, 36), Ping(2, 0, 13, 0, 36)>>

Meridian == <<Ping(2, 0, 0, 0, 36), Ping(2, 0, 3, 0, 36), Ping(2, 0, 6, 0, 36)>>

\* Three slow pings (expected step at its floor of 40 m): the first, at
\* (40 m, 120 m), heads 216 degrees, 9.4 degrees off the bearing to the
\* third; the second, at the origin, heads 10 degrees, 8.4 degrees off the
\* bearing to the first and 10 degrees off the bearing to the third, which
\* lies 40 m north of it.
ConflictTriple == <<Ping(2, 1, 3, 216, 4), Ping(2, 0, 0, 10, 4), Ping(2, 0, 1, 0, 4)>>

ScenarioBlocks ==
    {FarPair, ConflictTriple}
    \cup {[k \in 1..3 |-> Meridian[p[k]]] : p \in Perms(1..3)}

\* The frames the model starts from. A frame without speed_kmh carries no
\* speeds, and the rows of a frame that lacks a required column are never
\* read, so those frames are drawn short.
ColumnSets == {AllCols} \cup {AllCols \ {c} : c \in AllCols}

FramesFor(cols) ==
    LET kinds == IF "speed_kmh" \in cols THEN PingKinds
                 ELSE {k \in PingKinds : k.spd = 36}
        own == UNION {[1..n -> kinds] : n \in 0..MaxPings}
    IN IF HasRequiredCols(cols)
       THEN {f \o b : f \in own, b \in OtherBlocks}
            \cup {f \o b : f \in {h \in own : Len(h) <= 1},
                            b \in ScenarioBlocks}
       ELSE {f \in own : Len(f) <= 1}

NoLinks == [succ |-> <<>>, pred |-> <<>>]

InitRecon ==
    /\ r_cols \in ColumnSets
    /\ r_df \in FramesFor(r_cols)
    /\ r_pc = "call"
    /\ r_todo = <<>>
    /\ r_vid = 0
    /\ r_g = <<>>
    /\ r_i = 0
    /\ succ = <<>>
    /\ pred = <<>>
    /\ segments = <<>>
    /\ r_links = [v \in Vehicles |-> NoLinks]
    /\ r_err = NoErr

\* Lines 110-117: the empty frame returns at once; a frame lacking a required
\* column raises.
rp_enter ==
    /\ r_pc = "call"
    /\ IF Len(r_df) = 0
       THEN /\ r_pc' = "done"
            /\ UNCHANGED <<r_todo, r_err>>
       ELSE IF ~HasRequiredCols(r_cols)
       THEN /\ r_pc' = "raised"
            /\ r_err' = MissingColumnsError
            /\ UNCHANGED r_todo
       ELSE /\ r_pc' = "group"
            /\ r_todo' = GroupOrder(r_df)
            /\ UNCHANGED r_err
    /\ UNCHANGED <<r_df, r_cols, r_vid, r_g, r_i, succ, pred, segments, r_links>>
    /\ UNCHANGED notReconVars

\* Lines 120-140: the next group: static filter, `len(g) < 2: continue`,
\* projection, azm.astype(float), fresh succ and pred.
rp_group ==
    /\ r_pc = "group"
    /\ r_todo # <<>>
    /\ LET v == Head(r_todo)
           g == StaticFilter(GroupOf(r_df, v), r_cols)
       IN IF Len(g) < 2
          THEN /\ r_todo' = Tail(r_todo)
               /\ UNCHANGED <<r_pc, r_vid, r_g, r_i, succ, pred, r_err>>
          ELSE IF \E k \in DOMAIN g : g[k].azm = BadNum
          THEN /\ r_pc' = "raised"
               /\ r_err' = AzimuthValueError
               /\ UNCHANGED <<r_todo, r_vid, r_g, r_i, succ, pred>>
          ELSE /\ r_todo' = Tail(r_todo)
               /\ r_vid' = v
               /\ r_g' = g
               /\ r_i' = 1
               /\ succ' = [k \in DOMAIN g |-> 0]
               /\ pred' = [k \in DOMAIN g |-> 0]
               /\ r_pc' = "select"
               /\ UNCHANGED r_err
    /\ UNCHANGED <<r_df, r_cols, segments, r_links>>
    /\ UNCHANGED notReconVars

\* Lines 142-182: one iteration of the successor-selection loop.
rp_select ==
    /\ r_pc = "select"
    /\ \E o \in SelectOutcomes(r_g, _to_xy(r_g), r_cols,
                               [succ |-> succ, pred |-> pred], r_i) :
          /\ succ' = o.succ
          /\ pred' = o.pred
    /\ r_i' = r_i + 1
    /\ r_pc' = IF r_i = Len(r_g) THEN "extract" ELSE "select"
    /\ UNCHANGED <<r_df, r_cols, r_todo, r_vid, r_g, segments, r_links, r_err>>
    /\ UNCHANGED notReconVars

\* Lines 184-213: chain extraction for the group, its segments appended.
rp_extract ==
    /\ r_pc = "extract"
    /\ LET xy == _to_xy(r_g)
       IN segments' = segments \o
             ChainSegments(r_vid, r_g, xy, Chains(Len(r_g), succ, pred, 1, {}))
    /\ r_links' = [r_links EXCEPT ![r_vid] = [succ |-> succ, pred |-> pred]]
    /\ r_pc' = "group"
    /\ UNCHANGED <<r_df, r_cols, r_todo, r_vid, r_g, r_i, succ, pred, r_err>>
    /\ UNCHANGED notReconVars

\* Lines 215-220: all groups done, the segments are returned.
rp_return ==
    /\ r_pc = "group"
    /\ r_todo = <<>>
    /\ r_pc' = "done"
    /\ UNCHANGED <<r_df, r_cols, r_todo, r_vid, r_g, r_i, succ, pred,
                   segments, r_links, r_err>>
    /\ UNCHANGED notReconVars

NextRecon == rp_enter \/ rp_group \/ rp_select \/ rp_extract \/ rp_return

\* reconstruct_paths has returned its segments / has raised.
HasReturned == r_pc = "done"
HasRaised   == r_pc = "raised"

(***************************************************************************)
(* heatmap_generator.py : local frames and _grid_accumulate                *)
(*                                                                         *)
(* A row handed to the grid helper is [latH, lngH, x, y, w]: latH and lngH *)
(* are twice the row's lat and lng in lattice units (segment midpoints are *)
(* half-integers), x and y its planar coordinates in metres, w its weight. *)
(* Means and back-projected centres are exact fractions <<num, den>> in    *)
(* lowest terms.                                                           *)
(***************************************************************************)
MaxPts == 3

\* cell_m passed by every caller of the grid helpers
CELL_M == 80

Rat(num, den) ==
    LET g == Gcd(den, Abs(num))
    IN <<num \div g, den \div g>>

\* lat0 = df["lat"].mean(), lng0 = df["lng"].mean(); the scale factors
\* _meters_per_degree(lat0) are a function of lat0 (UnitM on the lattice).
LocalFrame(rows) ==
    LET n == Len(rows)
    IN [lat0 |-> Rat(SumSeq([k \in 1..n |-> rows[k].latH]), 2 * n),
        lng0 |-> Rat(SumSeq([k \in 1..n |-> rows[k].lngH]), 2 * n)]

\* np.floor(v / cell_m).astype(int)
CellIndex(v, cell_m) == v \div cell_m

CellOfRow(r, cell_m) == <<CellIndex(r.x, cell_m), CellIndex(r.y, cell_m)>>

\* np.unique(keys, axis=0): the distinct cells in lexicographic order
CellLess(a, b) == a[1] < b[1] \/ (a[1] = b[1] /\ a[2] < b[2])

RECURSIVE SortCells(_)
SortCells(S) ==
    IF S = {} THEN <<>>
    ELSE LET m == CHOOSE a \in S : \A b \in S \ {a} : CellLess(a, b)
         IN <<m>> \o SortCells(S \ {m})

\* A faulty variant: the weight of the first row of the cell instead of the sum.
CellFirst(rows, c, cell_m) ==
    LET k == CHOOSE a \in DOMAIN rows :
                 /\ CellOfRow(rows[a], cell_m) = c
                 /\ \A b \in DOMAIN rows :
                        CellOfRow(rows[b], cell_m) = c => a <= b
    IN rows[k].w

\* np.bincount(inv, weights): the sum of the weights of one cell
CellSum(rows, c, cell_m) ==
    SumSeq([k \in DOMAIN rows |->
               IF CellOfRow(rows[k], cell_m) = c THEN rows[k].w ELSE 0])

\* lat = lat0 + cy / my with cy = (iy + 0.5) * cell_m, and lng likewise
BackProject(origin, idx, cell_m) ==
    Rat(origin[1] * 2 * UnitM + origin[2] * (2 * idx + 1) * cell_m,
        origin[2] * 2 * UnitM)

\* _grid_accumulate(df_centered, xcol, ycol, wcol, cell_m)
_grid_accumulate(rows, cell_m) ==
    LET fr   == LocalFrame(rows)
        uniq == SortCells({CellOfRow(rows[k], cell_m) : k \in DOMAIN rows})
    IN [k \in DOMAIN uniq |->
           [cell |-> uniq[k],
            lat  |-> BackProject(fr.lat0, uniq[k][2], cell_m),
            lng  |-> BackProject(fr.lng0, uniq[k][1], cell_m),
            w    |-> CellSum(rows, uniq[k], cell_m)]]

\* ---- the point sets the grid model starts from ----
GridRow(latH, x, y, w) == [latH |-> latH, lngH |-> 0, x |-> x, y |-> y, w |-> w]

\* Points inside a cell, on cell boundaries and at negative coordinates.
PtKinds ==
    {GridRow(0, -1, 0, 1), GridRow(0, 0, 0, 1), GridRow(2, 0, 0, 2),
     GridRow(2, 79, 0, 1), GridRow(0, 80, 0, 2), GridRow(2, 0, 80, 1),
     GridRow(0, -80, -80, 2), GridRow(2, 0, -1, 1)}

NoGrid == <<>>

InitGrid ==
    /\ g_pts \in UNION {[1..n -> PtKinds] : n \in 1..MaxPts}
    /\ g_perm = <<>>
    /\ g_out = NoGrid
    /\ g_out2 = NoGrid
    /\ g_pc = "call"

\* The helper applied to the points and to a permutation of them.
GridCall ==
    /\ g_pc = "call"
    /\ \E p \in Perms(DOMAIN g_pts) :
          /\ g_perm' = [k \in DOMAIN g_pts |-> g_pts[p[k]]]
          /\ g_out2' = _grid_accumulate([k \in DOMAIN g_pts |-> g_pts[p[k]]], CELL_M)
    /\ g_out' = _grid_accumulate(g_pts, CELL_M)
    /\ g_pc' = "ret"
    /\ UNCHANGED g_pts
    /\ UNCHANGED notGridVars

NextGrid == GridCall

(***************************************************************************)
(* heatmap_generator.py : the frames of the generate_*_map callers         *)
(*                                                                         *)
(* f_df holds the pings given to the renderer as [lat, lng, spd]; f_seg    *)
(* the segments as [lat1, lng1, lat2, lng2]. Every call of a grid helper   *)
(* is recorded with the frame the caller projected x, y in and the frame   *)
(* the helper back-projects with.                                          *)
(***************************************************************************)
MaxFPings == 3

FPingKinds == [lat : {0, 1, 2}, lng : {0}, spd : {36, NaN}]

\* Rows of the renderer, as the helper sees their lat/lng columns.
PingRows(df) == [k \in DOMAIN df |-> [latH |-> 2 * df[k].lat, lngH |-> 2 * df[k].lng]]
StartRows(seg) == [k \in DOMAIN seg |-> [latH |-> 2 * seg[k].lat1, lngH |-> 2 * seg[k].lng1]]
EndRows(seg) == [k \in DOMAIN seg |-> [latH |-> 2 * seg[k].lat2, lngH |-> 2 * seg[k].lng2]]
\* seg["lat"] = 0.5 * (lat1 + lat2), seg["lng"] = 0.5 * (lng1 + lng2)
MidRows(seg) ==
    [k \in DOMAIN seg |-> [latH |-> seg[k].lat1 + seg[k].lat2,
                           lngH |-> seg[k].lng1 + seg[k].lng2]]

GridUse(map, layer, callerFrame, rows) ==
    [map |-> map, layer |-> layer, caller |-> callerFrame,
     helper |-> LocalFrame(rows), rows |-> rows]

\* generate_route_density_map: midpoints projected and gridded in one frame.
RouteDensityCalls(df, seg) ==
    IF Len(seg) = 0 THEN {}
    ELSE {GridUse("route", "km", LocalFrame(MidRows(seg)), MidRows(seg))}

\* generate_endpoints_map: one frame from starts and ends together, then one
\* helper call for the starts and one for the ends.
EndpointsCalls(df, seg) ==
    IF Len(seg) = 0 THEN {}
    ELSE LET fr == LocalFrame(StartRows(seg) \o EndRows(seg))
         IN {GridUse("endpoints", "pickups", fr, StartRows(seg)),
             GridUse("endpoints", "dropoffs", fr, EndRows(seg))}

\* generate_avg_speed_map: frame from all pings, helper on the pings whose
\* speed is known.
AvgSpeedCalls(df) ==
    LET known == SelectIdx(df, {k \in DOMAIN df : df[k].spd # NaN})
    IN IF Len(known) = 0 THEN {}
       ELSE {GridUse("speed", "avg", LocalFrame(PingRows(df)), PingRows(known))}

\* generate_trajectory_demand_map: one frame from the pings; helper calls for
\* presence, endpoints and corridor.
TrajectoryDemandCalls(df, seg) ==
    IF Len(df) = 0 THEN {}
    ELSE LET fr == LocalFrame(PingRows(df))
         IN {GridUse("demand", "presence", fr, PingRows(df))}
            \cup (IF Len(seg) = 0 THEN {}
                  ELSE {GridUse("demand", "endpoints", fr,
                                StartRows(seg) \o EndRows(seg)),
                        GridUse("demand", "corridor", fr, MidRows(seg))})

\* generate_ghg_map: midpoints projected and gridded in one frame.
GhgCalls(seg) ==
    IF Len(seg) = 0 THEN {}
    ELSE {GridUse("ghg", "kg", LocalFrame(MidRows(seg)), MidRows(seg))}

\* ---- the renderer inputs the frame model starts from ----
\* Segments come from reconstruction: links between pings of known speed,
\* at most one out of and one into each ping, no cycle.
RECURSIVE Reaches(_, _, _, _)
Reaches(sc, from, to, fuel) ==
    IF fuel = 0 \/ sc[from] = 0 THEN FALSE
    ELSE sc[from] = to \/ Reaches(sc, sc[from], to, fuel - 1)

LinkMaps(df) ==
    LET n == Len(df)
    IN {sc \in [1..n -> 0..n] :
          /\ \A a \in 1..n : sc[a] # 0 =>
                /\ sc[a] # a
                /\ df[a].spd # NaN /\ df[sc[a]].spd # NaN
                /\ \A b \in 1..n : (b # a /\ sc[b] = sc[a]) => FALSE
          /\ \A a \in 1..n : ~Reaches(sc, a, a, n)}

SegmentsOf(df, sc) ==
    LET srcs == SortedSeq({a \in DOMAIN df : sc[a] # 0})
    IN [k \in DOMAIN srcs |->
           [lat1 |-> df[srcs[k]].lat, lng1 |-> df[srcs[k]].lng,
            lat2 |-> df[sc[srcs[k]]].lat, lng2 |-> df[sc[srcs[k]]].lng]]

InitFrame ==
    /\ f_df \in UNION {[1..n -> FPingKinds] : n \in 1..MaxFPings}
    /\ f_seg \in {SegmentsOf(f_df, sc) : sc \in LinkMaps(f_df)}
    /\ f_calls = {}
    /\ f_pc = "idle"

Render(map, calls) ==
    /\ f_pc = "idle"
    /\ f_pc' = map
    /\ f_calls' = calls
    /\ UNCHANGED <<f_df, f_seg>>
    /\ UNCHANGED notFrameVars

generate_route_density_map == Render("route", RouteDensityCalls(f_df, f_seg))
generate_endpoints_map == Render("endpoints", EndpointsCalls(f_df, f_seg))
generate_avg_speed_map == Render("speed", AvgSpeedCalls(f_df))
generate_trajectory_demand_map ==
    Render("demand", TrajectoryDemandCalls(f_df, f_seg))
generate_ghg_map == Render("ghg", GhgCalls(f_seg))

NextFrame ==
    \/ generate_route_density_map
    \/ generate_endpoints_map
    \/ generate_avg_speed_map
    \/ generate_trajectory_demand_map
    \/ generate_ghg_map

(***************************************************************************)
(* calculate_statistics, speed analysis (data_processor.py 223-258)        *)
(*                                                                         *)
(* Speeds are whole km/h, NaN for a ping of unknown speed.  Percentiles    *)
(* are kept in twentieths of a km/h, which holds every value the linear    *)
(* interpolation of 0.25, 0.50, 0.75 and 0.95 can produce exactly.         *)
(***************************************************************************)
MaxStatRows == 6

SLOW_KMH    == 5     \* the 5.0 of max(5.0, q25)
MIN_LOW     == 5     \* len(low) >= 5
MIN_SAMPLES == 8     \* DBSCAN(min_samples=8)

StatSpeeds == {0, 4, 6, 10, NaN}

NoStats == [totalRecords |-> -1]
NoCall  == <<"no call">>

\* s.sort_values(): ascending, duplicates kept.
RECURSIVE SortVals(_)
SortVals(s) ==
    IF s = <<>> THEN <<>>
    ELSE LET k == CHOOSE a \in DOMAIN s : \A b \in DOMAIN s : s[a] <= s[b]
         IN <<s[k]>> \o SortVals(SelectIdx(s, DOMAIN s \ {k}))

\* s = df["speed_kmh"].dropna()
KnownSpeeds(df) ==
    LET known == SelectIdx(df, {k \in DOMAIN df : df[k].spd # NaN})
    IN [k \in DOMAIN known |-> known[k].spd]

\* s.quantile(p20 / 20), linear interpolation between the order statistics,
\* times 20.
QuantileX20(s, p20) ==
    LET srt == SortVals(s)
        h   == (Len(srt) - 1) * p20
        lo  == h \div 20
        r   == h % 20
    IN IF r = 0 THEN 20 * srt[lo + 1]
       ELSE 20 * srt[lo + 1] + r * (srt[lo + 2] - srt[lo + 1])

\* A faulty variant: the smaller of the threshold and the 25th percentile.
SlowLimitSmaller(s) == Min2(20 * SLOW_KMH, QuantileX20(s, 5))

\* Line 248: max(5.0, float(s.quantile(0.25))), times 20.
SlowLimitX20(s) == Max2(20 * SLOW_KMH, QuantileX20(s, 5))

\* Line 248: low = df[df["speed_kmh"] < limit]; a NaN speed compares False.
LowRows(df, limX20) ==
    SelectIdx(df, {k \in DOMAIN df : df[k].spd # NaN /\ 20 * df[k].spd < limX20})

\* The clustering primitive is external: of its answer only the number of
\* clusters is read, and fewer points than min_samples give none.
DbscanClusterCounts(pts) ==
    IF Len(pts) < MIN_SAMPLES THEN {0} ELSE 0..Len(pts)

BaseStats(df) == [totalRecords |-> Len(df)]

InitStats ==
    /\ st_df \in UNION {[1..n -> [lat : {0}, lng : {0}, spd : StatSpeeds]] :
                           n \in 0..MaxStatRows}
    /\ st_stats = NoStats
    /\ st_low = NoCall
    /\ st_pc = "call"

calculate_statistics ==
    /\ st_pc = "call"
    /\ st_pc' = "ret"
    /\ LET s == KnownSpeeds(st_df)
       IN IF Len(s) = 0
          THEN /\ st_stats' = BaseStats(st_df)
               /\ st_low' = NoCall
          ELSE LET pct == [p25 |-> QuantileX20(s, 5), p50 |-> QuantileX20(s, 10),
                           p75 |-> QuantileX20(s, 15), p95 |-> QuantileX20(s, 19)]
                   low == LowRows(st_df, SlowLimitX20(s))
               IN IF Len(low) >= MIN_LOW
                  THEN /\ st_low' = low
                       /\ \E c \in DbscanClusterCounts(low) :
                             st_stats' = [totalRecords |-> Len(st_df),
                                          speedPercentiles |-> pct,
                                          congestionAreas |-> c]
                  ELSE /\ st_low' = NoCall
                       /\ st_stats' = [totalRecords |-> Len(st_df),
                                       speedPercentiles |-> pct,
                                       congestionAreas |-> 0]
    /\ UNCHANGED st_df
    /\ UNCHANGED notStatVars

NextStats == calculate_statistics

(***************************************************************************)
(* apply_filters (data_processor.py 55-64)                                 *)
(***************************************************************************)
MaxFiltRows == 2

FiltCols == {"randomized_id", "lat", "lng"}

\* A filters dictionary: the keys it holds and their values.  bbox is
\* [minLat, minLng, maxLat, maxLng].
NoFilters == [keys |-> {}, vehicleIds |-> {}, bbox |-> <<>>]

IdLists == {{}, {1}, {2}, {1, 2}}
Bboxes  == {<<0, 0, 2, 1>>, <<1, 0, 1, 1>>, <<1, 1, 2, 1>>, <<2, 0, 0, 1>>}

FilterDicts ==
    {NoFilters}
    \cup {[keys |-> {"vehicleIds"}, vehicleIds |-> ids, bbox |-> <<>>] :
             ids \in IdLists}
    \cup {[keys |-> {"bbox"}, vehicleIds |-> {}, bbox |-> bb] : bb \in Bboxes}
    \cup {[keys |-> {"vehicleIds", "bbox"}, vehicleIds |-> ids, bbox |-> bb] :
             ids \in IdLists, bb \in Bboxes}

\* The frames handed in: a column that the frame lacks reads NaN.
FiltRows(cols) ==
    [vid : IF "randomized_id" \in cols THEN {1, 2} ELSE {NaN},
     lat : {0, 1, 2},
     lng : IF "lng" \in cols THEN {0, 1} ELSE {NaN}]

\* A faulty variant: a box that excludes its own border.
BetweenStrict(v, lo, hi) == lo < v /\ v < hi

\* Series.between(lo, hi): inclusive on both sides.
Between(v, lo, hi) == lo <= v /\ v <= hi

\* Lines 59-60: out[out["randomized_id"].isin(filters["vehicleIds"])]
FilterVehicleIds(out, cols, filters) ==
    IF "vehicleIds" \in filters.keys /\ "randomized_id" \in cols
    THEN SelectIdx(out, {k \in DOMAIN out : out[k].vid \in filters.vehicleIds})
    ELSE out

\* Lines 61-63: out[out["lat"].between(a, c) & out["lng"].between(b, d)]
FilterBbox(out, cols, filters) ==
    IF "bbox" \in filters.keys /\ {"lat", "lng"} \subseteq cols
    THEN LET a == filters.bbox[1]
             b == filters.bbox[2]
             c == filters.bbox[3]
             d == filters.bbox[4]
         IN SelectIdx(out, {k \in DOMAIN out :
                               /\ Between(out[k].lat, a, c)
                               /\ Between(out[k].lng, b, d)})
    ELSE out

InitFilter ==
    /\ af_cols \in {FiltCols, FiltCols \ {"randomized_id"}, FiltCols \ {"lng"}}
    /\ af_df \in UNION {[1..n -> FiltRows(af_cols)] : n \in 0..MaxFiltRows}
    /\ af_filters \in FilterDicts
    /\ af_out = <<>>
    /\ af_pc = "call"

apply_filters ==
    /\ af_pc = "call"
    /\ af_pc' = "ret"
    /\ af_out' = IF af_filters.keys = {} THEN af_df
                 ELSE FilterBbox(FilterVehicleIds(af_df, af_cols, af_filters),
                                 af_cols, af_filters)
    /\ UNCHANGED <<af_df, af_cols, af_filters>>
    /\ UNCHANGED notFiltVars

NextFilter == apply_filters

(***************************************************************************)
(* Specifications                                                          *)
(***************************************************************************)
IdleJobs == InitJobs

IdleSample ==
    /\ s_df = <<>> /\ s_hasid = TRUE /\ s_max = 1
    /\ s_out = NoFrame /\ s_pc = "idle"

IdleRecon ==
    /\ r_df = <<>> /\ r_cols = AllCols /\ r_pc = "idle" /\ r_todo = <<>>
    /\ r_vid = 0 /\ r_g = <<>> /\ r_i = 0 /\ succ = <<>> /\ pred = <<>>
    /\ segments = <<>> /\ r_links = [v \in Vehicles |-> NoLinks]
    /\ r_err = NoErr

IdleGrid ==
    /\ g_pts = <<>> /\ g_perm = <<>> /\ g_out = NoGrid /\ g_out2 = NoGrid
    /\ g_pc = "idle"

IdleFrame ==
    /\ f_df = <<>> /\ f_seg = <<>> /\ f_calls = {} /\ f_pc = "none"

IdleStats ==
    /\ st_df = <<>> /\ st_stats = NoStats /\ st_low = NoCall /\ st_pc = "idle"

IdleFilter ==
    /\ af_df = <<>> /\ af_cols = {} /\ af_filters = NoFilters
    /\ af_out = <<>> /\ af_pc = "idle"

IdleRest == IdleStats /\ IdleFilter

Init == InitJobs /\ IdleSample /\ IdleRecon /\ IdleGrid /\ IdleFrame /\ IdleRest
Next == NextJobs
Spec == Init /\ [][Next]_vars

\* The event loop runs every task that is ready: a task created by
\* create_job gets its turn, a waiter of job_semaphore is woken when a
\* permit is free, and a run that has started goes on to its end.
Fairness ==
    \A j \in JobIds :
        /\ WF_vars(pj_start(j))
        /\ WF_vars(pj_read(j))
        /\ WF_vars(pj_sample(j))
        /\ WF_vars(pj_reconstruct(j))
        /\ WF_vars(pj_finish(j))

SpecFair == Init /\ [][Next]_vars /\ Fairness

SampleStart == IdleJobs /\ InitSample /\ IdleRecon /\ IdleGrid /\ IdleFrame /\ IdleRest
SpecSample == SampleStart /\ [][NextSample]_vars

ReconStart == IdleJobs /\ IdleSample /\ InitRecon /\ IdleGrid /\ IdleFrame /\ IdleRest
SpecRecon == ReconStart /\ [][NextRecon]_vars

GridStart == IdleJobs /\ IdleSample /\ IdleRecon /\ InitGrid /\ IdleFrame /\ IdleRest
SpecGrid == GridStart /\ [][NextGrid]_vars

FrameStart == IdleJobs /\ IdleSample /\ IdleRecon /\ IdleGrid /\ InitFrame /\ IdleRest
SpecFrame == FrameStart /\ [][NextFrame]_vars

IdleOthers == IdleJobs /\ IdleSample /\ IdleRecon /\ IdleGrid /\ IdleFrame

StatsStart == IdleOthers /\ InitStats /\ IdleFilter
SpecStats == StatsStart /\ [][NextStats]_vars

FilterStart == IdleOthers /\ IdleStats /\ InitFilter
SpecFilter == FilterStart /\ [][NextFilter]_vars

(***************************************************************************)
(* Claims                                                                  *)
(***************************************************************************)

\* ---- job lifecycle (Spec) ----

\* No two segments of a vehicle share a source or share a destination.
SegmentsOneInOneOut ==
    \A a, b \in DOMAIN segments :
        (a # b /\ segments[a].vid = segments[b].vid)
            => /\ segments[a].src # segments[b].src
               /\ segments[a].dst # segments[b].dst

\* No two pings share a successor or share a predecessor.
LinksOneInOneOut(l) ==
    \A a, b \in DOMAIN l.succ :
        a # b => /\ (l.succ[a] # 0 => l.succ[a] # l.succ[b])
                 /\ (l.pred[a] # 0 => l.pred[a] # l.pred[b])

\* C1: after reconstruct_paths, within each vehicle every ping is the source
\* of at most one segment and the destination of at most one segment; the
\* same holds of the links the selection loop leaves behind (one successor
\* per ping, one predecessor per ping), whatever the order of the rows.
C1_OneInOneOut ==
    /\ SegmentsOneInOneOut
    /\ \A v \in Vehicles : LinksOneInOneOut(r_links[v])

\* A returned reconstruction in which some ping of a vehicle had a
\* qualifying candidate and yet ends without successor: it lost its target
\* to another ping, by losing the comparison or by being detached.
C1_Witness ==
    /\ HasReturned
    /\ segments # <<>>
    /\ \E v \in Vehicles :
          LET g  == StaticFilter(GroupOf(r_df, v), r_cols)
              l  == r_links[v]
          IN /\ l.succ # <<>>
             /\ \E a \in DOMAIN l.succ :
                   /\ l.succ[a] = 0
                   /\ \A C \in CandidateSets(_to_xy(g), a) :
                          Qualifying(g, _to_xy(g), a, C) # {}

\* C2 (as stated): once cancel_job has set a job's status to cancelled, the
\* status stays cancelled; it never becomes running, completed or failed.
C2_CancelledStays ==
    [][\A j \in DOMAIN jobs_db :
          jobs_db[j].status = "cancelled" => jobs_db'[j].status = "cancelled"]_vars

\* ---- safe_sample (SpecSample) ----
Sampled == s_pc = "ret"

\* Rows of vehicle v in the input / in the returned frame.
RowsInOf(v)  == Cardinality(GroupRows(s_df, v))
RowsOutOf(v) == SumSeq([k \in DOMAIN s_df |->
                           IF s_df[k] = v THEN s_out.cnt[k] ELSE 0])

\* floor(maxRows / vehicle count), for a frame with at least one vehicle
Quota == s_max \div Max2(1, Cardinality(UniqueVids(s_df)))

OverCap == Sampled /\ s_hasid /\ Len(s_df) > s_max /\ UniqueVids(s_df) # {}

\* C3 (as stated): for every input with more than max_rows rows the returned
\* frame has at most max_rows rows.
C3_Capped ==
    (Sampled /\ Len(s_df) > s_max) => RowsOut(s_out) <= s_max

\* C4 (as stated): over the cap with a quota below 2, every vehicle is either
\* kept with all its pings or dropped entirely.
C4_WholeVehicles ==
    (OverCap /\ Quota < 2) =>
        \A v \in UniqueVids(s_df) : RowsOutOf(v) \in {0, RowsInOf(v)}

\* C5: over the cap with a quota of at least 2, every vehicle of the input
\* keeps min(quota, its ping count) pings, each an input ping taken at most
\* once.
C5_NoVehicleDropped ==
    (OverCap /\ Quota >= 2) =>
        /\ \A v \in UniqueVids(s_df) : RowsOutOf(v) = Min2(Quota, RowsInOf(v))
        /\ \A k \in DOMAIN s_df : s_out.cnt[k] <= 1

C5_Witness ==
    /\ OverCap /\ Quota >= 2
    /\ Cardinality(UniqueVids(s_df)) >= 2
    /\ \E v \in UniqueVids(s_df) : RowsInOf(v) > Quota
    /\ \E v \in UniqueVids(s_df) : RowsInOf(v) < Quota

\* C6: with max_rows >= the row count, safe_sample returns the input frame:
\* every row exactly once, in input order.
C6_Identity ==
    (Sampled /\ s_max >= Len(s_df)) =>
        /\ s_out.same
        /\ \A k \in DOMAIN s_df : s_out.cnt[k] = 1
        /\ DOMAIN s_out.cnt = DOMAIN s_df

C6_Witness ==
    /\ Sampled /\ s_max = Len(s_df) /\ Len(s_df) >= 2
    /\ Cardinality(UniqueVids(s_df)) >= 2

\* ---- the frames of the grid helper (SpecFrame) ----
\* C7 (as stated): in every aggregation path the frame the grid helper
\* back-projects with is the frame the caller projected x, y in.
C7_SameFrame == \A c \in f_calls : c.caller = c.helper

\* ---- _grid_accumulate (SpecGrid) ----
\* The cell -> summed weight mapping of a helper result.
CellWeights(out) == {<<out[k].cell, out[k].w>> : k \in DOMAIN out}

NonEmptyCells(rows) == {CellOfRow(rows[k], CELL_M) : k \in DOMAIN rows}

\* C8: permuting the points before _grid_accumulate gives the same mapping
\* from cell to summed weight, and the result has exactly one row per
\* non-empty cell.
C8_OrderIndependent ==
    g_pc = "ret" =>
        /\ CellWeights(g_out) = CellWeights(g_out2)
        /\ {g_out[k].cell : k \in DOMAIN g_out} = NonEmptyCells(g_pts)
        /\ Len(g_out) = Cardinality(NonEmptyCells(g_pts))
        /\ Len(g_out2) = Cardinality(NonEmptyCells(g_pts))

\* A call on reordered points, two of different weight in one cell and a
\* third in another cell.
C8_Witness ==
    /\ g_pc = "ret"
    /\ g_perm # g_pts
    /\ g_perm[1] # g_pts[1]
    /\ Len(g_out) >= 2
    /\ \E a, b \in DOMAIN g_pts :
          /\ a # b
          /\ CellOfRow(g_pts[a], CELL_M) = CellOfRow(g_pts[b], CELL_M)
          /\ g_pts[a].w # g_pts[b].w

\* ---- reconstruct_paths: errors (SpecRecon) ----
MissingCols == RequiredCols \ r_cols

\* reconstruct_paths was called on a non-empty frame lacking a required column.
CalledWithoutColumn == r_pc # "call" /\ Len(r_df) > 0 /\ MissingCols # {}

\* C9 (as stated): called on a non-empty frame that lacks a required column,
\* reconstruct_paths fails with an error that identifies the missing column
\* and returns no segments.
C9_NamesMissingField ==
    CalledWithoutColumn =>
        /\ HasRaised
        /\ r_err.names = MissingCols
        /\ segments = <<>>

\* C9 (amended): called on a non-empty frame that lacks a required column,
\* reconstruct_paths fails with a ValueError whose message lists all four
\* required columns, whichever is missing, and returns no segments.
C9_ListsRequiredFields ==
    CalledWithoutColumn =>
        /\ HasRaised
        /\ r_err = MissingColumnsError
        /\ r_err.names = RequiredCols
        /\ segments = <<>>

C9_Witness ==
    /\ HasRaised
    /\ Len(r_df) > 0
    /\ MissingCols = {"azm"}

\* C10 (as stated): a failure caused by one vehicle's data is isolated to
\* that vehicle; a run that has built the segments of another vehicle still
\* returns them.
C10_FailureIsolated ==
    (r_pc \in {"done", "raised"} /\ segments # <<>>) => HasReturned

\* ---- process_job: failures, permits, results (Spec) ----
\* The jobs whose run is inside `async with job_semaphore`.
InGuarded == {j \in JobIds : pc[j] \in {"read", "sample", "reconstruct", "render"}}

\* C11: an error raised at any phase of a run is captured: the job ends
\* failed with an error message and completedAt set, its task has ended
\* (nothing propagates), and its permit is back in job_semaphore.
C11_ErrorsCaptured ==
    /\ \A j \in DOMAIN jobs_db :
          jobs_db[j].status = "failed" =>
              /\ jobs_db[j].error # None
              /\ jobs_db[j].completedAt = "at_fail"
              /\ pc[j] = "done"
    /\ permits = MAX_CONCURRENT_JOBS - Cardinality(InGuarded)

\* One job has failed, in the reconstruction phase, and another job runs
\* after it.
C11_Witness ==
    \E j, k \in DOMAIN jobs_db :
        /\ jobs_db[j].status = "failed"
        /\ jobs_db[j].progress = 30
        /\ NeedsSegments(jobs_db[j].analysisType)
        /\ jobs_db[k].status = "running"

C13_ResultsIffCompleted ==
    \A j \in DOMAIN jobs_db :
        jobs_db[j].results # None <=> jobs_db[j].status = "completed"

\* A completed job with results beside a failed run that had reached the
\* rendering phase.
C13_Witness ==
    \E j, k \in DOMAIN jobs_db :
        /\ jobs_db[j].status = "completed" /\ jobs_db[j].results # None
        /\ jobs_db[k].status = "failed" /\ jobs_db[k].progress = 55

\* ---- reconstruct_paths: segments (SpecRecon) ----
\* The rows of vehicle v that pass the static filter.
UsablePings(v) ==
    {k \in DOMAIN r_df :
        /\ r_df[k].vid = v
        /\ "speed_kmh" \in r_cols => UsableSpeed(r_df[k].spd)}

SegmentsOfVehicle(v) == {k \in DOMAIN segments : segments[k].vid = v}

\* C14: given the required columns, a vehicle with at most one usable ping
\* gets no segment and is never the vehicle at which reconstruct_paths
\* raises; an empty frame returns an empty segment set.
C14_FewPingsNoSegments ==
    /\ HasRequiredCols(r_cols) =>
          \A v \in Vehicles :
              Cardinality(UsablePings(v)) <= 1 =>
                  /\ SegmentsOfVehicle(v) = {}
                  /\ ~(HasRaised /\ Head(r_todo) = v)
    /\ (Len(r_df) = 0 /\ r_pc # "call") => (HasReturned /\ segments = <<>>)

\* A returned call in which vehicle 1 has several pings of which one is
\* usable, and vehicle 2 has segments.
C14_Witness ==
    /\ HasReturned
    /\ Cardinality(UsablePings(1)) = 1
    /\ Cardinality({k \in DOMAIN r_df : r_df[k].vid = 1}) >= 2
    /\ SegmentsOfVehicle(2) # {}

\* Planar length in centimetres between the endpoints a segment row carries
\* (coordinates are numerators over den, see _to_xy).
EndpointDistCm(sg) ==
    DistCm((sg.x2 - sg.x1) \div (sg.den * UnitCm),
           (sg.y2 - sg.y1) \div (sg.den * UnitCm))

\* C15: every emitted segment has emissions = length_km * emission factor,
\* its length being the planar distance between its two endpoints in the
\* vehicle's frame; a 1.0 km segment with factor 0.192 emits 0.192 kg.
C15_EmissionsFromLength ==
    /\ \A k \in DOMAIN segments :
          /\ segments[k].dist = EndpointDistCm(segments[k])
          /\ segments[k].co2 = segments[k].dist * EF_MILLI
    /\ Emission(100000) = 19200000

\* A returned call with a segment that runs diagonally and one that runs
\* due north.
C15_Witness ==
    /\ HasReturned
    /\ \E a, b \in DOMAIN segments :
          /\ segments[a].x1 # segments[a].x2
          /\ segments[a].y1 # segments[a].y2
          /\ segments[a].co2 > 0
          /\ segments[b].x1 = segments[b].x2
          /\ segments[b].dist = UnitCm

\* The pings of vehicle v as the selection loop sees them.
FilteredGroup(v) == StaticFilter(GroupOf(r_df, v), r_cols)

\* C16: every emitted segment joins a source ping to a destination ping
\* within max_link_m of it and whose bearing from the source is within
\* heading_tol_deg of the source's azimuth; two pings further apart than
\* max_link_m (here 520 m) give no segment.
C16_LinkWithinCaps ==
    /\ \A k \in DOMAIN segments :
          LET sg == segments[k]
              g  == FilteredGroup(sg.vid)
          IN /\ NNDist(_to_xy(g), sg.src, sg.dst) <= MAX_LINK_CM
             /\ AngTo(g, _to_xy(g), sg.src, sg.dst) <= HEADING_TOL_D10
    /\ (GroupOf(r_df, 2) = FarPair) => SegmentsOfVehicle(2) = {}

\* A returned call on the far pair preceded by a ping of vehicle 1: both
\* pings of the pair were usable and were handed to the selection loop.
C16_Witness ==
    /\ HasReturned
    /\ GroupOf(r_df, 2) = FarPair
    /\ Len(r_links[2].succ) = 2
    /\ segments = <<>>

\* The rows of vehicle v in frame order, and its usable rows.
OwnRows(v) == SelectIdx(r_df, {k \in DOMAIN r_df : r_df[k].vid = v})

OwnUsable(v) ==
    LET g == OwnRows(v)
    IN IF "speed_kmh" \in r_cols
       THEN SelectIdx(g, {k \in DOMAIN g : UsableSpeed(g[k].spd)})
       ELSE g

\* Both endpoints of segment sg are pings of the group g of vehicle v.
EndpointsIn(sg, v, g) ==
    /\ sg.vid = v
    /\ sg.src \in DOMAIN g /\ sg.dst \in DOMAIN g
    /\ sg.lat1 = g[sg.src].y /\ sg.lng1 = g[sg.src].x
    /\ sg.lat2 = g[sg.dst].y /\ sg.lng2 = g[sg.dst].x

MeridianFrame ==
    /\ Len(OwnRows(2)) = 3
    /\ Range(OwnRows(2)) = Range(Meridian)

C21_UnknownSpeedKept ==
    r_pc \in {"select", "extract"} =>
        LET own == OwnRows(r_vid)
        IN r_g = SelectIdx(own, {k \in DOMAIN own :
                                    ~(own[k].spd # NaN /\ own[k].spd < MIN_SPEED_KMH)})

\* The targets ping i of group g can tentatively select, over every
\* neighbour list the search can return; 0 when some list leaves i without
\* qualifying candidate.
TentativeTargets(g, cols, i) ==
    LET xy == _to_xy(g)
    IN UNION {LET ok == Qualifying(g, xy, i, C)
              IN IF ok = {} THEN {0} ELSE ArgmaxChoices(g, xy, cols, i, ok)
              : C \in CandidateSets(xy, i)}

\* A selection step in which ping r_i tentatively selects a target j that
\* already has a predecessor leaves j with the source of smaller angular
\* difference to j, the earlier one on a tie.
KeepsBetterAligned ==
    r_pc = "select" =>
        \A j \in DOMAIN r_g :
            (TentativeTargets(r_g, r_cols, r_i) = {j} /\ pred[j] # 0) =>
                LET xy  == _to_xy(r_g)
                    new == AngTo(r_g, xy, r_i, j)
                    old == AngTo(r_g, xy, pred[j], j)
                IN pred'[j] = IF new < old THEN r_i ELSE pred[j]

\* C22 (as stated): when ping i tentatively selects a target j that already
\* has a predecessor, the edge kept into j is the one whose source has the
\* smaller angular difference between its azimuth and the bearing to j; on
\* a tie the earlier-found edge is kept.
C22_KeepsBetterAligned == [][KeepsBetterAligned]_vars

\* Following the successor links sc from ping a never comes back to a.
NoCycleThrough(sc, a) == ~Reaches(sc, a, a, Len(sc))

\* C23 (as stated): the successor graph left by the selection loop is
\* acyclic for every ping set: following successor links from any ping never
\* returns to that ping.
C23_Acyclic ==
    /\ r_pc = "extract" => \A a \in DOMAIN succ : NoCycleThrough(succ, a)
    /\ \A v \in Vehicles :
          \A a \in DOMAIN r_links[v].succ : NoCycleThrough(r_links[v].succ, a)

\* The successor links a finished vehicle is left with, as (source, target).
SurvivingLinks(v) ==
    LET sc == r_links[v].succ
    IN {<<a, sc[a]>> : a \in {b \in DOMAIN sc : sc[b] # 0}}

\* C24 (as stated): chain extraction emits the chains completely: every
\* successor link (i, succ[i]) that survives conflict resolution appears as
\* exactly one emitted segment, and no segment is emitted that is not such a
\* link.
C24_LinksAreSegments ==
    (r_pc \in {"group", "done"}) =>
        \A v \in Vehicles :
            LET own == SegmentsOfVehicle(v)
            IN /\ {<<segments[k].src, segments[k].dst>> : k \in own}
                      = SurvivingLinks(v)
               /\ Cardinality(own) = Cardinality(SurvivingLinks(v))

\* A run of the selection loop and of the chain extraction on one group of
\* rows handed over as a whole: every set of directed links, as coordinates
\* (lat1, lng1, lat2, lng2), that the group can come out with.
RECURSIVE Zeros(_)
Zeros(n) == IF n = 0 THEN <<>> ELSE Append(Zeros(n - 1), 0)

RECURSIVE LoopOutcomes(_, _, _, _, _)
LoopOutcomes(g, xy, cols, sps, i) ==
    IF i > Len(g) THEN sps
    ELSE LoopOutcomes(g, xy, cols,
                      UNION {SelectOutcomes(g, xy, cols, sp, i) : sp \in sps},
                      i + 1)

LinkCoords(sg) == {<<sg[k].lat1, sg[k].lng1, sg[k].lat2, sg[k].lng2>> : k \in DOMAIN sg}

GroupOutcomes(rows, cols) ==
    LET g  == StaticFilter(rows, cols)
        xy == _to_xy(g)
        n  == Len(g)
    IN IF n < 2 THEN {{}}
       ELSE {LinkCoords(ChainSegments(0, g, xy, Chains(n, sp.succ, sp.pred, 1, {}))) :
                sp \in LoopOutcomes(g, xy, cols,
                                    {[succ |-> Zeros(n), pred |-> Zeros(n)]}, 1)}

\* C28 (as stated): the set of segments reconstructed for a vehicle does not
\* depend on the order in which the vehicle's pings are supplied: the links
\* returned for the rows as given are links the same pings yield in every
\* other row order.
C28_RowOrderIndependent ==
    HasReturned =>
        \A v \in Vehicles :
            LET own   == OwnRows(v)
                found == LinkCoords(SelectIdx(segments, SegmentsOfVehicle(v)))
            IN \A p \in Perms(DOMAIN own) :
                  found \in GroupOutcomes([k \in DOMAIN own |-> own[p[k]]], r_cols)

\* C29 (as stated): a ping is never its own successor: for every ping i,
\* also when several pings of the vehicle lie on the same point, the
\* candidate set examined for i excludes i itself, so succ[i] # i and no
\* self-link is created.
C29_NoSelfLink ==
    /\ r_pc = "select" =>
          \A C \in CandidateSets(_to_xy(r_g), r_i) : r_i \notin C
    /\ r_pc \in {"select", "extract"} => \A k \in DOMAIN succ : succ[k] # k

\* C30: at every iteration boundary of the successor-selection loop succ and
\* pred are mutual inverses: pred[j] = i if and only if succ[i] = j, so
\* whenever pred[j] is set exactly one ping has j as successor (the lookup
\* of the existing predecessor is neither empty nor ambiguous).
C30_MutualInverses ==
    r_pc \in {"select", "extract"} =>
        /\ \A i \in DOMAIN succ : succ[i] # 0 => pred[succ[i]] = i
        /\ \A j \in DOMAIN pred :
              pred[j] # 0 =>
                  /\ succ[pred[j]] = j
                  /\ Cardinality({a \in DOMAIN succ : succ[a] = j}) = 1

\* The loop has ended after a conflict in which an edge was replaced: ping
\* k, whose only possible target is j, is left without successor, and j's
\* predecessor is a ping visited after k.
C30_Witness ==
    /\ r_pc = "extract"
    /\ \E k, j \in DOMAIN succ :
          /\ succ[k] = 0
          /\ TentativeTargets(r_g, r_cols, k) = {j}
          /\ pred[j] > k

\* ---- calculate_statistics (SpecStats) ----

\* The 25th percentile of the known speeds, in twentieths of a km/h.
P25X20 == QuantileX20(KnownSpeeds(st_df), 5)

\* The pings of the input whose speed is known and below lim / 20 km/h.
PingsBelow(limX20) ==
    SelectIdx(st_df, {k \in DOMAIN st_df :
                         st_df[k].spd # NaN /\ 20 * st_df[k].spd < limX20})

HasIdPredicate == "vehicleIds" \in af_filters.keys /\ "randomized_id" \in af_cols
HasBoxPredicate == "bbox" \in af_filters.keys /\ {"lat", "lng"} \subseteq af_cols

\* Ping p satisfies every predicate present.
SatisfiesAll(p) ==
    /\ HasIdPredicate => p.vid \in af_filters.vehicleIds
    /\ HasBoxPredicate =>
          /\ af_filters.bbox[1] <= p.lat /\ p.lat <= af_filters.bbox[3]
          /\ af_filters.bbox[2] <= p.lng /\ p.lng <= af_filters.bbox[4]

\* C19: apply_filters returns exactly the input pings, in their order, that
\* satisfy every predicate present (vehicle id in the allow-list; minLat <=
\* lat <= maxLat and minLng <= lng <= maxLng, bounds included); the
\* predicates compose conjunctively, and with no predicate present the input
\* comes back unchanged.
C19_ExactlySatisfying ==
    af_pc = "ret" =>
        /\ af_out = SelectIdx(af_df, {k \in DOMAIN af_df : SatisfiesAll(af_df[k])})
        /\ (~HasIdPredicate /\ ~HasBoxPredicate) => af_out = af_df

\* A call with both predicates present that keeps a ping lying on the border
\* of the box and drops another ping: one for its vehicle id or for its
\* position.
C19_Witness ==
    /\ af_pc = "ret"
    /\ HasIdPredicate /\ HasBoxPredicate
    /\ Len(af_out) < Len(af_df)
    /\ \E k \in DOMAIN af_out :
          /\ af_out[k].lat = af_filters.bbox[1]
          /\ af_out[k].lat = af_filters.bbox[3]
          /\ af_out[k].lng = af_filters.bbox[4]

\* ---- endpoint sets of the renderers (SpecFrame) ----

\* Segments that start at a ping with no predecessor / end at a ping with no
\* successor, found by looking the coordinates up in the segment set.
HeadSegments(seg) ==
    {k \in DOMAIN seg :
        ~\E m \in DOMAIN seg :
            seg[m].lat2 = seg[k].lat1 /\ seg[m].lng2 = seg[k].lng1}

TailSegments(seg) ==
    {k \in DOMAIN seg :
        ~\E m \in DOMAIN seg :
            seg[m].lat1 = seg[k].lat2 /\ seg[m].lng1 = seg[k].lng2}

\* No two pings lie on the same point, so that a coordinate names one ping.
DistinctCoords(df) ==
    \A a, b \in DOMAIN df :
        (df[a].lat = df[b].lat /\ df[a].lng = df[b].lng) => a = b

\* C25 (as stated): the endpoint sets derived from the segment set are the
\* chain heads and tails: the pickup set holds exactly the pings with no
\* predecessor and the dropoff set exactly the pings with no successor, so
\* an interior ping of a chain is in neither set (pings on distinct points).
C25_EndpointsAreHeadsAndTails ==
    LET heads == StartRows(SelectIdx(f_seg, HeadSegments(f_seg)))
        tails == EndRows(SelectIdx(f_seg, TailSegments(f_seg)))
    IN DistinctCoords(f_df) => \A u \in f_calls :
          /\ (u.map = "endpoints" /\ u.layer = "pickups") => u.rows = heads
          /\ (u.map = "endpoints" /\ u.layer = "dropoffs") => u.rows = tails
          /\ (u.map = "demand" /\ u.layer = "endpoints") => u.rows = heads \o tails

\* ---- absorbing job states (Spec) ----

Finished(j) == j \in DOMAIN jobs_db /\ jobs_db[j].status \in {"completed", "failed"}

\* A step leaves every completed or failed job as it is, and a cancel_job
\* of such a job is answered with an error.
FinishedStays ==
    \A j \in JobIds :
        Finished(j) =>
            /\ jobs_db'[j] = jobs_db[j]
            /\ cancel_job(j) => last_resp' = [op |-> "cancel", code |-> 400]

\* C27: completed and failed are absorbing: once a job's status is
\* completed or failed no field of the job (status, completedAt, results,
\* error) ever changes again, and cancel_job on such a job returns an error
\* and modifies nothing.
C27_FinishedAbsorbing == [][FinishedStays]_vars

\* A cancel_job has just been refused while one job is completed with its
\* results and another is failed with its error.
C27_Witness ==
    /\ last_resp = [op |-> "cancel", code |-> 400]
    /\ \E j \in JobIds :
          Finished(j) /\ jobs_db[j].status = "completed"
                      /\ jobs_db[j].results # None
    /\ \E j \in JobIds :
          Finished(j) /\ jobs_db[j].status = "failed" /\ jobs_db[j].error # None

\* ---- liveness of the job lifecycle (SpecFair) ----

\* Job j is submitted and its task has not started / has ended.
Waiting(j) == pc[j] = "queued"
Settled(j) ==
    /\ pc[j] = "done"
    /\ jobs_db[j].status \in {"completed", "failed", "cancelled"}

\* C26: under fair scheduling every submitted job eventually leaves the
\* pending and running states for completed, failed or cancelled; every
\* waiting job eventually starts; and whenever no run is in progress every
\* permit of the semaphore is back, whichever way the runs ended.
C26_EventuallySettled ==
    /\ \A j \in JobIds : Waiting(j) ~> (pc[j] # "queued")
    /\ \A j \in JobIds : Waiting(j) ~> Settled(j)
    /\ [](LoopFree => permits = MAX_CONCURRENT_JOBS)

\* Every job has been submitted and has ended, one by an exception and one
\* normally, and all permits are back.
C26_Witness ==
    /\ \A j \in JobIds : j \in DOMAIN jobs_db /\ Settled(j)
    /\ \E j \in JobIds : jobs_db[j].status = "failed"
    /\ \E j \in JobIds : jobs_db[j].status = "completed"
    /\ permits = MAX_CONCURRENT_JOBS

====
